---- MODULE Spec2Model ----
(***************************************************************************)
(* Model of the moonshot object storage layer (storage.py), of the         *)
(* database accessor it hands out, and of the red-teaming routes           *)
(* (redteam.py).                                                           *)
(*                                                                         *)
(* Strings that the code concatenates or matches (ids, extensions, paths)  *)
(* are sequences of one-character strings.  File contents are sequences of *)
(* JSON tokens (the whitespace json.dump(indent=2) emits is dropped; the   *)
(* parser skips it).  Python values are records, so that a tuple and a     *)
(* list are different values that serialise to the same JSON array.        *)
(***************************************************************************)
EXTENDS Naturals, Integers, Sequences, FiniteSets, TLC

VARIABLES fs, live, gone, last, wr, handles, dbs, reqs, resp

vars == <<fs, live, gone, last, wr, handles, dbs, reqs, resp>>

(***************************************************************************)
(* Bounds                                                                  *)
(***************************************************************************)
MaxFiles == 2
MaxHandles == 2
MaxRows == 1
MaxRequests == 2

(***************************************************************************)
(* Python values: None, int, str, list, tuple, dict.                       *)
(*   tag   the Python type                                                 *)
(*   lit   the literal of an int or str                                    *)
(*   items the items of a list or tuple                                    *)
(*   ents  the (key, value) pairs of a dict                                *)
(***************************************************************************)
PyNone == [tag |-> "None", lit |-> "", items |-> <<>>, ents |-> {}]
PyInt(n) == [tag |-> "int", lit |-> n, items |-> <<>>, ents |-> {}]
PyStr(s) == [tag |-> "str", lit |-> s, items |-> <<>>, ents |-> {}]
PyList(xs) == [tag |-> "list", lit |-> "", items |-> xs, ents |-> {}]
PyTuple(xs) == [tag |-> "tuple", lit |-> "", items |-> xs, ents |-> {}]
PyDict(es) == [tag |-> "dict", lit |-> "", items |-> <<>>, ents |-> es]

Keys == {"k"}
IntLits == {"1"}
StrLits == {"s", "k"}

\* the values a caller stores under a key
Vals == {PyInt("1"), PyList(<<PyInt("1")>>), PyTuple(<<PyInt("1")>>)}

\* the mappings callers pass to create_object: string keys, values json.dump accepts
Docs == {PyDict({})} \cup {PyDict({<<k, v>>}) : k \in Keys, v \in Vals}

(***************************************************************************)
(* json.dump / json.load                                                   *)
(***************************************************************************)
Quote(s) == "\"" \o s \o "\""

RECURSIVE SetToSeq(_)
SetToSeq(S) == IF S = {} THEN <<>>
               ELSE LET x == CHOOSE y \in S : TRUE IN <<x>> \o SetToSeq(S \ {x})

RECURSIVE Dumps(_)
RECURSIVE DumpItems(_)
RECURSIVE DumpEnts(_)
DumpItems(xs) ==
  IF xs = <<>> THEN <<>>
  ELSE IF Len(xs) = 1 THEN Dumps(xs[1])
  ELSE Dumps(xs[1]) \o <<",">> \o DumpItems(Tail(xs))

DumpEnts(es) ==
  IF es = <<>> THEN <<>>
  ELSE LET e == es[1]
           one == <<Quote(e[1]), ":">> \o Dumps(e[2])
       IN IF Len(es) = 1 THEN one ELSE one \o <<",">> \o DumpEnts(Tail(es))

\* json.dumps: a tuple is written as an array, exactly like a list
Dumps(v) ==
  CASE v.tag = "None" -> <<"null">>
    [] v.tag = "int" -> <<v.lit>>
    [] v.tag = "str" -> <<Quote(v.lit)>>
    [] v.tag \in {"list", "tuple"} -> <<"[">> \o DumpItems(v.items) \o <<"]">>
    [] v.tag = "dict" -> <<"{">> \o DumpEnts(SetToSeq(v.ents)) \o <<"}">>

StrTokens == {Quote(s) : s \in StrLits}
Unquote(tok) == CHOOSE s \in StrLits : Quote(s) = tok

ParseFail == [ok |-> FALSE, val |-> PyNone, next |-> 0]
ParseOk(v, n) == [ok |-> TRUE, val |-> v, next |-> n]

\* the dict a JSON object's pairs build: a repeated key keeps its last value
PutEnt(es, k, v) == {e \in es : e[1] # k} \cup {<<k, v>>}

RECURSIVE ParseValue(_, _)
RECURSIVE ParseItems(_, _, _)
RECURSIVE ParseEnts(_, _, _)
\* after "[" and zero or more items: toks[i] starts the next item
ParseItems(toks, i, acc) ==
  LET r == ParseValue(toks, i) IN
  IF ~r.ok THEN ParseFail
  ELSE IF r.next > Len(toks) THEN ParseFail
  ELSE IF toks[r.next] = "]" THEN ParseOk(PyList(Append(acc, r.val)), r.next + 1)
  ELSE IF toks[r.next] = "," THEN ParseItems(toks, r.next + 1, Append(acc, r.val))
  ELSE ParseFail

\* after "{" and zero or more pairs: toks[i] is the next key
ParseEnts(toks, i, acc) ==
  IF i + 1 > Len(toks) THEN ParseFail
  ELSE IF toks[i] \notin StrTokens \/ toks[i + 1] # ":" THEN ParseFail
  ELSE LET r == ParseValue(toks, i + 2) IN
       IF ~r.ok THEN ParseFail
       ELSE IF r.next > Len(toks) THEN ParseFail
       ELSE IF toks[r.next] = "}"
            THEN ParseOk(PyDict(PutEnt(acc, Unquote(toks[i]), r.val)), r.next + 1)
       ELSE IF toks[r.next] = ","
            THEN ParseEnts(toks, r.next + 1, PutEnt(acc, Unquote(toks[i]), r.val))
       ELSE ParseFail

ParseValue(toks, i) ==
  IF i > Len(toks) THEN ParseFail
  ELSE LET t == toks[i] IN
    IF t = "null" THEN ParseOk(PyNone, i + 1)
    ELSE IF t \in IntLits THEN ParseOk(PyInt(t), i + 1)
    ELSE IF t \in StrTokens THEN ParseOk(PyStr(Unquote(t)), i + 1)
    ELSE IF t = "["
      THEN IF i + 1 <= Len(toks) /\ toks[i + 1] = "]"
           THEN ParseOk(PyList(<<>>), i + 2)
           ELSE ParseItems(toks, i + 1, <<>>)
    ELSE IF t = "{"
      THEN IF i + 1 <= Len(toks) /\ toks[i + 1] = "}"
           THEN ParseOk(PyDict({}), i + 2)
           ELSE ParseEnts(toks, i + 1, {})
    ELSE ParseFail

\* json.loads: one value, then nothing but whitespace ("Extra data" otherwise)
Loads(toks) ==
  LET r == ParseValue(toks, 1) IN
  IF r.ok /\ r.next = Len(toks) + 1 THEN [ok |-> TRUE, val |-> r.val]
  ELSE [ok |-> FALSE, val |-> PyNone]

(***************************************************************************)
(* Configuration and path resolution                                       *)
(***************************************************************************)
\* EnvironmentVars: one attribute per object type, holding its root directory
EnvironmentVars == [RECIPES |-> <<"R">>, COOKBOOKS |-> <<"C">>]

Types == DOMAIN EnvironmentVars
UnconfiguredTypes == {"BOGUS"}
AllTypes == Types \cup UnconfiguredTypes

\* the objects callers address: (type, id, extension), ids and extensions
\* being free-form strings (none holds a "/")
Objects ==
  { <<"RECIPES", <<"a">>, <<"j">> >>,
    <<"RECIPES", <<"a">>, <<"b", ".", "j">> >>,
    <<"RECIPES", <<"a", ".", "b">>, <<"j">> >>,
    <<"COOKBOOKS", <<".", "a">>, <<"j">> >> }

\* the same calls made with a type EnvironmentVars does not have
ConfigObjects ==
  { <<"RECIPES", <<"a">>, <<"j">> >>,
    <<"COOKBOOKS", <<"a">>, <<"j">> >>,
    <<"BOGUS", <<"a">>, <<"j">> >> }

\* getattr(EnvironmentVars, obj_type): AttributeError for a name it does not have
HasAttr(t) == t \in DOMAIN EnvironmentVars

\* f"{getattr(EnvironmentVars, obj_type)}/{obj_id}.{obj_extension}"
PathOf(t, id, ext) == EnvironmentVars[t] \o <<"/">> \o id \o <<".">> \o ext

get_filepath(t, id, ext) ==
  IF HasAttr(t) THEN [res |-> "ok", path |-> PathOf(t, id, ext)]
  ELSE [res |-> "ConfigurationError", path |-> <<>>]

(***************************************************************************)
(* The filesystem: fs maps each existing path to the file's tokens.        *)
(***************************************************************************)
NoFiles == [p \in {} |-> <<>>]

PathExists(f, p) == p \in DOMAIN f

\* open(path, "w"): the file is created if absent and truncated to nothing
OpenTruncate(f, p) == [q \in DOMAIN f \cup {p} |-> IF q = p THEN <<>> ELSE f[q]]

\* the buffered text reaches the file when it is closed: one write at the
\* descriptor's offset 0, over whatever the file holds by then (the file is
\* not opened in append mode, and a write does not truncate)
WriteAtStart(f, p, data) ==
  [q \in DOMAIN f \cup {p} |->
     IF q # p THEN f[q]
     ELSE IF p \in DOMAIN f /\ Len(f[p]) > Len(data)
          THEN data \o SubSeq(f[p], Len(data) + 1, Len(f[p]))
          ELSE data]

\* the file opened without truncation ("r+" for "w")
WriteFileKeepingOld(f, p, data) == WriteAtStart(f, p, data)

\* with open(path, "w") as json_file: json.dump(...), run with no one in between
WriteFile(f, p, data) == WriteAtStart(OpenTruncate(f, p), p, data)

\* Path.unlink
Unlink(f, p) == [q \in DOMAIN f \ {p} |-> f[q]]

IsPrefix(s, t) == Len(s) <= Len(t) /\ SubSeq(t, 1, Len(s)) = s
IsSuffix(s, t) == Len(s) <= Len(t) /\ SubSeq(t, Len(t) - Len(s) + 1, Len(t)) = s

\* the name of p inside directory root, or <<>> when p is not directly in it
NameIn(root, p) ==
  LET pre == root \o <<"/">> IN
  IF IsPrefix(pre, p) /\ Len(p) > Len(pre)
     /\ \A i \in (Len(pre) + 1)..Len(p) : p[i] # "/"
  THEN SubSeq(p, Len(pre) + 1, Len(p))
  ELSE <<>>

\* fnmatch alone, without glob's rule for names that start with a dot
GlobMatchHidden(name, ext) ==
  /\ name # <<>>
  /\ IsSuffix(<<".">> \o ext, name)

\* fnmatch of a name against "*." + ext, with glob's rule that a pattern not
\* starting with a dot never matches a name that starts with one
GlobMatch(name, ext) ==
  /\ name # <<>>
  /\ name[1] # "."
  /\ IsSuffix(<<".">> \o ext, name)

\* glob.iglob(f"{root}/*.{ext}"), as the set of paths it yields
Glob(f, root, ext) == {p \in DOMAIN f : GlobMatch(NameIn(root, p), ext)}

(***************************************************************************)
(* Storage: the document operations as functions of the filesystem         *)
(***************************************************************************)
Out(res) == [res |-> res, doc |-> PyNone, bool |-> FALSE, paths |-> {}, path |-> <<>>]

\* create_object: the filesystem after the call
create_object_fs(f, t, id, ext, doc) ==
  IF ~HasAttr(t) THEN f
  ELSE WriteFile(f, PathOf(t, id, ext), Dumps(doc))

create_object_out(f, t, id, ext, doc) ==
  IF ~HasAttr(t) THEN Out("ConfigurationError") ELSE Out("ok")

\* a read that answers an empty mapping for a missing file
read_object_default(f, t, id, ext) ==
  IF ~HasAttr(t) THEN Out("ConfigurationError")
  ELSE IF ~PathExists(f, PathOf(t, id, ext)) THEN [Out("ok") EXCEPT !.doc = PyDict({})]
  ELSE LET r == Loads(f[PathOf(t, id, ext)]) IN
       IF r.ok THEN [Out("ok") EXCEPT !.doc = r.val] ELSE Out("JSONDecodeError")

read_object(f, t, id, ext) ==
  IF ~HasAttr(t) THEN Out("ConfigurationError")
  ELSE IF ~PathExists(f, PathOf(t, id, ext)) THEN Out("FileNotFoundError")
  ELSE LET r == Loads(f[PathOf(t, id, ext)]) IN
       IF r.ok THEN [Out("ok") EXCEPT !.doc = r.val] ELSE Out("JSONDecodeError")

\* a delete that empties the file instead of unlinking it
delete_object_fs_truncating(f, t, id, ext) ==
  IF HasAttr(t) /\ PathExists(f, PathOf(t, id, ext))
  THEN OpenTruncate(f, PathOf(t, id, ext))
  ELSE f

\* a delete that unlinks every file of the root whose name starts with the id
delete_object_fs_by_prefix(f, t, id, ext) ==
  IF HasAttr(t) /\ PathExists(f, PathOf(t, id, ext))
  THEN [q \in {r \in DOMAIN f : ~IsPrefix(id, NameIn(EnvironmentVars[t], r))} |-> f[q]]
  ELSE f

delete_object_fs(f, t, id, ext) ==
  IF HasAttr(t) /\ PathExists(f, PathOf(t, id, ext))
  THEN Unlink(f, PathOf(t, id, ext))
  ELSE f

delete_object_out(f, t, id, ext) ==
  IF ~HasAttr(t) THEN Out("ConfigurationError")
  ELSE IF PathExists(f, PathOf(t, id, ext)) THEN Out("ok")
  ELSE Out("RuntimeError")

get_objects(f, t, ext) ==
  IF ~HasAttr(t) THEN Out("ConfigurationError")
  ELSE [Out("ok") EXCEPT !.paths = Glob(f, EnvironmentVars[t], ext)]

\* os.path.getctime raises FileNotFoundError for a missing path; the timestamp
\* of an existing file is not modelled
get_creation_datetime(f, t, id, ext) ==
  IF ~HasAttr(t) THEN Out("ConfigurationError")
  ELSE IF ~PathExists(f, PathOf(t, id, ext)) THEN Out("FileNotFoundError")
  ELSE Out("ok")

get_filepath_out(t, id, ext) ==
  [Out(get_filepath(t, id, ext).res) EXCEPT !.path = get_filepath(t, id, ext).path]

\* a lookup that answers False when the type cannot be resolved
is_object_exists_swallowing(f, t, id, ext) ==
  IF ~HasAttr(t) THEN [Out("ok") EXCEPT !.bool = FALSE]
  ELSE [Out("ok") EXCEPT !.bool = PathExists(f, PathOf(t, id, ext))]

is_object_exists(f, t, id, ext) ==
  IF ~HasAttr(t) THEN Out("ConfigurationError")
  ELSE [Out("ok") EXCEPT !.bool = PathExists(f, PathOf(t, id, ext))]

\* m with every tuple replaced by the list of its items
RECURSIVE AsLists(_)
AsLists(v) ==
  CASE v.tag = "tuple" -> PyList([i \in DOMAIN v.items |-> AsLists(v.items[i])])
    [] v.tag = "list" -> PyList([i \in DOMAIN v.items |-> AsLists(v.items[i])])
    [] v.tag = "dict" -> PyDict({<<e[1], AsLists(e[2])>> : e \in v.ents})
    [] OTHER -> v

ObjPath(o) == PathOf(o[1], o[2], o[3])
ExistsObj(f, o) == is_object_exists(f, o[1], o[2], o[3])
ReadObj(f, o) == read_object(f, o[1], o[2], o[3])
LastObj == <<last.t, last.id, last.ext>>
LastObjNext == <<last'.t, last'.id, last'.ext>>

(***************************************************************************)
(* State                                                                   *)
(*   fs       the filesystem                                               *)
(*   live     the triples whose last create/delete was a create            *)
(*   gone     the triples whose last create/delete was a delete            *)
(*   last     the last storage call and what it returned or raised         *)
(*   wr       the concurrent writers of one object, each inside            *)
(*            create_object                                                *)
(*   handles  the database accessors handed out so far                     *)
(*   dbs      the database files: path -> number of rows                   *)
(*   reqs     the HTTP requests in flight                                  *)
(*   resp     the last HTTP response                                       *)
(***************************************************************************)
NoHandle == 0

Call(op, t, id, ext, doc, h, out) ==
  [op |-> op, t |-> t, id |-> id, ext |-> ext, arg |-> doc, h |-> h,
   res |-> out.res, doc |-> out.doc, bool |-> out.bool, paths |-> out.paths,
   path |-> out.path, reached |-> FALSE, was |-> "none"]

NoCall == Call("none", "none", <<>>, <<>>, PyNone, NoHandle, Out("none"))

Writers == {1, 2}
IdleWriter == [pc |-> "idle", doc |-> PyNone]

Requests == 1..MaxRequests
IdleRequest == [handler |-> "none", pc |-> "idle", history |-> FALSE, data |-> "none"]

NoResp == [handler |-> "none", status |-> 0, failed |-> FALSE, code |-> "none"]

Init ==
  /\ fs = NoFiles
  /\ live = {}
  /\ gone = {}
  /\ last = NoCall
  /\ wr = [w \in Writers |-> IdleWriter]
  /\ handles = <<>>
  /\ dbs = [p \in {} |-> 0]
  /\ reqs = [r \in Requests |-> IdleRequest]
  /\ resp = NoResp

(***************************************************************************)
(* Document store actions: one call of one caller, start to end            *)
(***************************************************************************)
\* the disk holds at most MaxFiles files
HasRoom(t, id, ext) ==
  IF ~HasAttr(t) THEN TRUE
  ELSE IF PathExists(fs, PathOf(t, id, ext)) THEN TRUE
  ELSE Cardinality(DOMAIN fs) < MaxFiles

StoreFrame == UNCHANGED <<wr, handles, dbs, reqs, resp>>

CreateObject(t, id, ext, doc) ==
  /\ HasRoom(t, id, ext)
  /\ fs' = create_object_fs(fs, t, id, ext, doc)
  /\ last' = Call("create", t, id, ext, doc, NoHandle, create_object_out(fs, t, id, ext, doc))
  /\ live' = IF HasAttr(t) THEN live \cup {<<t, id, ext>>} ELSE live
  /\ gone' = IF HasAttr(t) THEN gone \ {<<t, id, ext>>} ELSE gone
  /\ StoreFrame

ReadObject(t, id, ext) ==
  /\ last' = Call("read", t, id, ext, PyNone, NoHandle, read_object(fs, t, id, ext))
  /\ UNCHANGED <<fs, live, gone>>
  /\ StoreFrame

DeleteObject(t, id, ext) ==
  /\ fs' = delete_object_fs(fs, t, id, ext)
  /\ last' = Call("delete", t, id, ext, PyNone, NoHandle, delete_object_out(fs, t, id, ext))
  /\ live' = IF delete_object_out(fs, t, id, ext).res = "ok"
             THEN live \ {<<t, id, ext>>} ELSE live
  /\ gone' = IF delete_object_out(fs, t, id, ext).res = "ok"
             THEN gone \cup {<<t, id, ext>>} ELSE gone
  /\ StoreFrame

GetObjects(t, ext) ==
  /\ last' = Call("list", t, <<>>, ext, PyNone, NoHandle, get_objects(fs, t, ext))
  /\ UNCHANGED <<fs, live, gone>>
  /\ StoreFrame

GetCreationDatetime(t, id, ext) ==
  /\ last' = Call("ctime", t, id, ext, PyNone, NoHandle, get_creation_datetime(fs, t, id, ext))
  /\ UNCHANGED <<fs, live, gone>>
  /\ StoreFrame

GetFilepath(t, id, ext) ==
  /\ last' = Call("filepath", t, id, ext, PyNone, NoHandle, get_filepath_out(t, id, ext))
  /\ UNCHANGED <<fs, live, gone>>
  /\ StoreFrame

IsObjectExists(t, id, ext) ==
  /\ last' = Call("exists", t, id, ext, PyNone, NoHandle, is_object_exists(fs, t, id, ext))
  /\ UNCHANGED <<fs, live, gone>>
  /\ StoreFrame

StoreNext(OO) ==
  \/ \E o \in OO, doc \in Docs : CreateObject(o[1], o[2], o[3], doc)
  \/ \E o \in OO : ReadObject(o[1], o[2], o[3])
  \/ \E o \in OO : DeleteObject(o[1], o[2], o[3])
  \/ \E o \in OO : GetObjects(o[1], o[3])
  \/ \E o \in OO : GetCreationDatetime(o[1], o[2], o[3])
  \/ \E o \in OO : GetFilepath(o[1], o[2], o[3])
  \/ \E o \in OO : IsObjectExists(o[1], o[2], o[3])

\* the document store, called by one caller at a time
NextStore == StoreNext(Objects)

SpecStore == Init /\ [][NextStore]_vars

(***************************************************************************)
(* Two callers inside create_object for the same object at once.  Each     *)
(* call is: resolve the path and open it for writing (which truncates),    *)
(* then json.dump into the file object's buffer and close (which writes    *)
(* the buffer at the start of the file).  Nothing orders the steps of one  *)
(* call against the steps of the other.                                    *)
(***************************************************************************)
RaceObject == <<"RECIPES", <<"a">>, <<"j">> >>

\* the mappings that read back equal to themselves
PlainDocs == {d \in Docs : AsLists(d) = d}

RaceFrame == UNCHANGED <<live, gone, handles, dbs, reqs, resp>>

\* a caller enters create_object(obj_type, obj_id, obj_info, obj_extension)
WriterCall(w, doc) ==
  /\ wr[w].pc = "idle"
  /\ \A v \in Writers \ {w} : wr[v].doc # doc
  /\ wr' = [wr EXCEPT ![w] = [pc |-> "called", doc |-> doc]]
  /\ UNCHANGED <<fs, last>>
  /\ RaceFrame

\* open(obj_filepath, "w")
WriterOpen(w) ==
  /\ wr[w].pc = "called"
  /\ fs' = OpenTruncate(fs, ObjPath(RaceObject))
  /\ wr' = [wr EXCEPT ![w].pc = "opened"]
  /\ UNCHANGED last
  /\ RaceFrame

\* json.dump(obj_info, json_file, indent=2) and the close that ends the with block
WriterDump(w) ==
  /\ wr[w].pc = "opened"
  /\ fs' = WriteAtStart(fs, ObjPath(RaceObject), Dumps(wr[w].doc))
  /\ wr' = [wr EXCEPT ![w].pc = "done"]
  /\ UNCHANGED last
  /\ RaceFrame

BothDone == \A w \in Writers : wr[w].pc = "done"

\* read_object once both calls have returned
RaceRead ==
  /\ BothDone
  /\ last' = Call("read", RaceObject[1], RaceObject[2], RaceObject[3], PyNone, NoHandle,
                  ReadObj(fs, RaceObject))
  /\ UNCHANGED <<fs, wr>>
  /\ RaceFrame

NextRace ==
  \/ \E w \in Writers, doc \in PlainDocs : WriterCall(w, doc)
  \/ \E w \in Writers : WriterOpen(w)
  \/ \E w \in Writers : WriterDump(w)
  \/ RaceRead

SpecRace == Init /\ [][NextRace]_vars

(***************************************************************************)
(* Database connections.  A handle is the index of an accessor in handles, *)
(* or NoHandle for the None a caller holds when no accessor was made.      *)
(* The accessor and DatabaseManager are the engine behind the storage      *)
(* layer: an accessor is made Open, close_connection makes it Closed, and  *)
(* nothing makes it Open again.  What the engine does with a call on a     *)
(* Closed accessor is not defined: it may raise or return, and it changes  *)
(* no database.                                                            *)
(***************************************************************************)
Accessor(path) == [path |-> path, st |-> "Open"]

\* DatabaseManager.create_connection: an accessor, or None
ConnectOutcomes == {"connected", "noconnect"}

\* what a statement run by an Open accessor can end in
SqlOutcomes == {"ok", "SqlError"}

\* what a call on a Closed accessor can end in
ClosedOutcomes == {"ok", "EngineError"}

\* create_database_connection after the connect step: raise or return
create_database_connection(connected) ==
  IF ~connected THEN "raise" ELSE "return"

\* the guard of each operation: call the accessor, or raise RuntimeError
close_database_connection(h) == IF h # NoHandle THEN "call" ELSE "raise"

\* a guard that lets a missing handle through without a word
create_database_table_silent(h) == IF h # NoHandle THEN "call" ELSE "return"

\* a guard that tells a handle from a missing one the wrong way round
create_database_table_inverted(h) == IF h = NoHandle THEN "call" ELSE "raise"

create_database_table(h) == IF h # NoHandle THEN "call" ELSE "raise"

create_database_record(h) == IF h # NoHandle THEN "call" ELSE "raise"

update_database_record(h) == IF h # NoHandle THEN "call" ELSE "raise"

HandleArgs == {NoHandle} \cup DOMAIN handles

DbCall(op, h, res, reached, was) ==
  [Call(op, "none", <<>>, <<>>, PyNone, h, Out(res)) EXCEPT !.reached = reached, !.was = was]

DbFrame == UNCHANGED <<fs, live, gone, wr, reqs, resp>>

\* the calling code holds the handle it was given, or None when the call raised
CreateDatabaseConnection(t, id, ext, c) ==
  /\ Len(handles) < MaxHandles
  /\ IF get_filepath(t, id, ext).res # "ok"
     THEN /\ last' = [Call("open", t, id, ext, PyNone, NoHandle, Out("ConfigurationError"))
                        EXCEPT !.was = "unresolved"]
          /\ UNCHANGED <<handles, dbs>>
     ELSE IF create_database_connection(c = "connected") = "raise"
     THEN /\ last' = [Call("open", t, id, ext, PyNone, NoHandle, Out("RuntimeError"))
                        EXCEPT !.was = c]
          /\ UNCHANGED <<handles, dbs>>
     ELSE /\ handles' = Append(handles, Accessor(get_filepath(t, id, ext).path))
          /\ dbs' = [q \in DOMAIN dbs \cup {get_filepath(t, id, ext).path} |->
                       IF q \in DOMAIN dbs THEN dbs[q] ELSE 0]
          /\ last' = [Call("open", t, id, ext, PyNone, Len(handles) + 1, Out("ok"))
                        EXCEPT !.was = c]
  /\ DbFrame

\* one guarded operation of the storage layer on handle h: guard is what
\* the layer's guard decides, effect is what the accessor does to its
\* database when it is Open and the statement succeeds
Guarded(op, h, guard, closes, adds, r) ==
  /\ IF guard = "raise"
     THEN /\ last' = DbCall(op, h, "RuntimeError", FALSE, "none")
          /\ UNCHANGED <<handles, dbs>>
     ELSE IF guard = "return"
     THEN /\ last' = DbCall(op, h, "ok", FALSE, "none")
          /\ UNCHANGED <<handles, dbs>>
     ELSE IF h = NoHandle
     THEN /\ last' = DbCall(op, h, "AttributeError", FALSE, "none")
          /\ UNCHANGED <<handles, dbs>>
     ELSE IF handles[h].st = "Closed"
     THEN /\ r \in ClosedOutcomes
          /\ last' = DbCall(op, h, r, TRUE, "Closed")
          /\ UNCHANGED <<handles, dbs>>
     ELSE /\ r \in SqlOutcomes
          /\ closes => r = "ok"
          /\ (adds > 0 /\ r = "ok") => dbs[handles[h].path] + adds <= MaxRows
          /\ last' = DbCall(op, h, r, TRUE, "Open")
          /\ handles' = IF closes THEN [handles EXCEPT ![h].st = "Closed"] ELSE handles
          /\ dbs' = IF r = "ok" /\ adds > 0
                    THEN [dbs EXCEPT ![handles[h].path] = @ + adds] ELSE dbs
  /\ DbFrame

CloseDatabaseConnection(h, r) ==
  Guarded("close", h, close_database_connection(h), TRUE, 0, r)

CreateDatabaseTable(h, r) ==
  Guarded("table", h, create_database_table(h), FALSE, 0, r)

CreateDatabaseRecord(h, r) ==
  Guarded("record", h, create_database_record(h), FALSE, 1, r)

UpdateDatabaseRecord(h, r) ==
  Guarded("update", h, update_database_record(h), FALSE, 0, r)

AnyOutcome == SqlOutcomes \cup ClosedOutcomes

NextDb ==
  \/ \E o \in ConfigObjects, c \in ConnectOutcomes :
        CreateDatabaseConnection(o[1], o[2], o[3], c)
  \/ \E h \in HandleArgs, r \in AnyOutcome : CloseDatabaseConnection(h, r)
  \/ \E h \in HandleArgs, r \in AnyOutcome : CreateDatabaseTable(h, r)
  \/ \E h \in HandleArgs, r \in AnyOutcome : CreateDatabaseRecord(h, r)
  \/ \E h \in HandleArgs, r \in AnyOutcome : UpdateDatabaseRecord(h, r)

SpecDb == Init /\ [][NextDb]_vars

\* every operation that resolves a path, on configured and unconfigured types
NextConfig ==
  \/ StoreNext(ConfigObjects)
  \/ \E o \in ConfigObjects, c \in ConnectOutcomes :
        CreateDatabaseConnection(o[1], o[2], o[3], c)

SpecConfig == Init /\ [][NextConfig]_vars

(***************************************************************************)
(* The red-teaming routes.  A request runs its handler; each call of the   *)
(* session service returns, or raises SessionException with an error_code. *)
(* "UnexpectedError" stands for every error_code other than the two the    *)
(* handlers name.                                                          *)
(***************************************************************************)
Handlers ==
  {"get_all_sessions", "get_session_by_session_id", "create", "prompt",
   "get_all_prompt_templates", "set_prompt_template", "unset_prompt_template"}

ErrorCodes == {"FileNotFound", "ValidationError", "UnexpectedError"}

\* what a session service call can do: return a value, return None, raise
ServiceOutcomes ==
  {[kind |-> "value", code |-> "none"], [kind |-> "None", code |-> "none"]}
    \cup {[kind |-> "raise", code |-> c] : c \in ErrorCodes}

\* the except clause of each handler
get_all_sessions(code) ==
  IF code = "FileNotFound" THEN 404 ELSE IF code = "ValidationError" THEN 400 ELSE 500

get_session_by_session_id(code) ==
  IF code = "FileNotFound" THEN 404 ELSE IF code = "ValidationError" THEN 400 ELSE 500

create(code) ==
  IF code = "FileNotFound" THEN 404 ELSE IF code = "ValidationError" THEN 400 ELSE 500

prompt(code) ==
  IF code = "FileNotFound" THEN 404 ELSE IF code = "ValidationError" THEN 400 ELSE 500

get_all_prompt_templates(code) ==
  IF code = "FileNotFound" THEN 404 ELSE IF code = "ValidationError" THEN 400 ELSE 500

\* an except clause that lost its ValidationError branch
set_prompt_template_unvalidated(code) ==
  IF code = "FileNotFound" THEN 404 ELSE 500

set_prompt_template(code) ==
  IF code = "FileNotFound" THEN 404 ELSE IF code = "ValidationError" THEN 400 ELSE 500

unset_prompt_template(code) ==
  IF code = "FileNotFound" THEN 404 ELSE IF code = "ValidationError" THEN 400 ELSE 500

ExceptClause(handler, code) ==
  CASE handler = "get_all_sessions" -> get_all_sessions(code)
    [] handler = "get_session_by_session_id" -> get_session_by_session_id(code)
    [] handler = "create" -> create(code)
    [] handler = "prompt" -> prompt(code)
    [] handler = "get_all_prompt_templates" -> get_all_prompt_templates(code)
    [] handler = "set_prompt_template" -> set_prompt_template(code)
    [] handler = "unset_prompt_template" -> unset_prompt_template(code)

\* handlers that call the session service twice before answering
CallsTwice(q) ==
  \/ q.handler = "create"
  \/ q.handler = "get_session_by_session_id" /\ q.history

Raised(handler, code) ==
  [handler |-> handler, status |-> ExceptClause(handler, code), failed |-> TRUE,
   code |-> code]

Answered(handler, status) ==
  [handler |-> handler, status |-> status, failed |-> FALSE, code |-> "none"]

ApiFrame == UNCHANGED <<fs, live, gone, last, wr, handles, dbs>>

\* a request is routed to its handler
Arrive(r, handler, history) ==
  /\ r \in DOMAIN reqs
  /\ reqs[r].pc = "idle"
  /\ history => handler = "get_session_by_session_id"
  /\ reqs' = [reqs EXCEPT ![r] = [handler |-> handler, pc |-> "called",
                                  history |-> history, data |-> "none"]]
  /\ UNCHANGED resp
  /\ ApiFrame

\* the handler's first call of the session service, and its answer when it
\* makes no second call
FirstCall(r, out) ==
  /\ r \in DOMAIN reqs
  /\ reqs[r].pc = "called"
  /\ out.kind = "None" => reqs[r].handler = "get_session_by_session_id"
  /\ IF out.kind = "raise"
     THEN /\ resp' = Raised(reqs[r].handler, out.code)
          /\ reqs' = [reqs EXCEPT ![r] = IdleRequest]
     ELSE IF CallsTwice(reqs[r])
     THEN /\ reqs' = [reqs EXCEPT ![r].pc = "fetched", ![r].data = out.kind]
          /\ UNCHANGED resp
     ELSE /\ resp' = IF reqs[r].handler = "get_session_by_session_id" /\ out.kind = "None"
                     THEN Answered(reqs[r].handler, 404)
                     ELSE Answered(reqs[r].handler, 200)
          /\ reqs' = [reqs EXCEPT ![r] = IdleRequest]
  /\ ApiFrame

\* get_session_chat_history of get_session_by_session_id, get_session of create.
\* What SessionResponseModel makes of a missing session is the schema's
\* business: the request is answered 200 or 500.
SecondCall(r, out, st) ==
  /\ r \in DOMAIN reqs
  /\ reqs[r].pc = "fetched"
  /\ out.kind = "None" => reqs[r].handler = "create"
  /\ resp' = IF out.kind = "raise" THEN Raised(reqs[r].handler, out.code)
             ELSE IF reqs[r].handler = "get_session_by_session_id" /\ reqs[r].data = "None"
             THEN Answered(reqs[r].handler, 404)
             ELSE IF reqs[r].handler = "create" /\ out.kind = "None"
             THEN Answered(reqs[r].handler, st)
             ELSE Answered(reqs[r].handler, 200)
  /\ reqs' = [reqs EXCEPT ![r] = IdleRequest]
  /\ ApiFrame

NextApi ==
  \/ \E r \in Requests, h \in Handlers, b \in BOOLEAN : Arrive(r, h, b)
  \/ \E r \in Requests, out \in ServiceOutcomes : FirstCall(r, out)
  \/ \E r \in Requests, out \in ServiceOutcomes, st \in {200, 500} : SecondCall(r, out, st)

SpecApi == Init /\ [][NextApi]_vars

(***************************************************************************)
(* Claims about the document store (SpecStore)                             *)
(***************************************************************************)
\* C1 as stated: right after create(m) succeeds, read() on the same triple
\* returns a mapping equal to m.
C1_ReadReturnsWritten ==
  (last.op = "create" /\ last.res = "ok") =>
     /\ ReadObj(fs, LastObj).res = "ok"
     /\ ReadObj(fs, LastObj).doc = last.arg

\* C1 amended: right after create(m) succeeds, whatever was created or deleted
\* before, read() on the same triple succeeds and returns m with each tuple
\* turned into a list (so m itself when m holds no tuple), and nothing else.
C1_ReadReturnsJsonImage ==
  (last.op = "create" /\ last.res = "ok") =>
     /\ ReadObj(fs, LastObj).res = "ok"
     /\ ReadObj(fs, LastObj).doc = AsLists(last.arg)

\* an empty mapping has just been written over a file some create had filled,
\* with another object deleted before
C1_Witness ==
  /\ last.op = "create" /\ last.res = "ok"
  /\ last.arg = PyDict({})
  /\ gone # {}
  /\ ReadObj(fs, LastObj).doc = PyDict({})

C2_AfterDelete ==
  (last.op = "delete" /\ last.res = "ok") =>
     /\ LastObj \in gone
     /\ ExistsObj(fs, LastObj).res = "ok" /\ ExistsObj(fs, LastObj).bool = FALSE
     /\ ReadObj(fs, LastObj).res = "FileNotFoundError"

C2_StaysAbsent ==
  \A o \in Objects :
     (/\ ~ExistsObj(fs, o).bool
      /\ ~(last'.op = "create" /\ last'.res = "ok" /\ ObjPath(LastObjNext) = ObjPath(o)))
     => (/\ ~ExistsObj(fs', o).bool
         /\ ReadObj(fs', o).res = "FileNotFoundError")

FailsAsAbsent(c) ==
  /\ c.op = "read" => c.res = "FileNotFoundError"
  /\ c.op = "delete" => c.res = "RuntimeError"
  /\ c.op = "ctime" => c.res = "FileNotFoundError"
  /\ c.op = "exists" => (c.res = "ok" /\ c.bool = FALSE)

AbsenceOps == {"read", "delete", "ctime", "exists"}

\* C3 as stated: a call of read, delete or creationTime on a triple that is
\* not stored (never created, or deleted since) fails, exists answers false,
\* and the store is unchanged.
C3_NotStoredFails ==
  [][(last'.op \in AbsenceOps /\ LastObjNext \notin live)
       => (FailsAsAbsent(last') /\ fs' = fs)]_vars

\* C3 amended: a call of read, delete or creationTime on a triple of a
\* configured type whose resolved path names no file (neither the triple nor
\* any triple resolving to the same path is stored) fails with the not-found
\* error (FileNotFoundError, RuntimeError for delete), exists answers false
\* without failing, and the stored documents are unchanged.
C3_AbsentPathFails ==
  [][(last'.op \in AbsenceOps /\ ~PathExists(fs, ObjPath(LastObjNext)))
       => (FailsAsAbsent(last') /\ fs' = fs)]_vars

\* delete was called on a deleted object while another document is stored
C3_Witness ==
  /\ last.op = "delete" /\ last.res = "RuntimeError"
  /\ LastObj \in gone
  /\ DOMAIN fs # {}

C10_OtherTriplesUntouched ==
  [][(last'.op \in {"create", "delete"})
       => \A u \in Objects \ {LastObjNext} :
             /\ ExistsObj(fs', u) = ExistsObj(fs, u)
             /\ ReadObj(fs', u) = ReadObj(fs, u)]_vars

\* C10 amended: a create or delete on one triple changes only the file at its
\* resolved path; exists() and read() of every triple that resolves to another
\* path are as they were.
C10_OtherPathsUntouched ==
  [][(last'.op \in {"create", "delete"})
       => \A u \in Objects :
             ObjPath(u) # ObjPath(LastObjNext) =>
               /\ ExistsObj(fs', u) = ExistsObj(fs, u)
               /\ ReadObj(fs', u) = ReadObj(fs, u)]_vars

\* an object was deleted while an object of another type is stored
C10_Witness ==
  /\ last.op = "delete" /\ last.res = "ok"
  /\ \E u \in live : u[1] # last.t /\ ExistsObj(fs, u).bool

(***************************************************************************)
(* Claims about concurrent creates (SpecRace)                              *)
(***************************************************************************)
\* C5: once two concurrent create() calls on the same triple with different
\* contents have both completed, read() returns exactly one of the two
\* contents.
C5_OneOfTheTwoReadable ==
  BothDone =>
     /\ ReadObj(fs, RaceObject).res = "ok"
     /\ ReadObj(fs, RaceObject).doc \in {wr[w].doc : w \in Writers}

(***************************************************************************)
(* Claims about database connections (SpecDb)                              *)
(***************************************************************************)
HandleOps == {"close", "table", "record", "update"}
RecordOps == {"table", "record", "update"}

\* C6: open() fails with the initialization error when the connect step
\* returns no handle, and close, createTable, createRecord and updateRecord
\* called with no handle each fail with the initialization error, without
\* calling the accessor and without changing any accessor or database.
C6_InitializationGuard ==
  [][/\ (last'.op = "open" /\ last'.was = "noconnect")
          => (last'.res = "RuntimeError" /\ last'.h = NoHandle
              /\ UNCHANGED <<handles, dbs>>)
     /\ (last'.op \in HandleOps /\ last'.h = NoHandle)
          => (last'.res = "RuntimeError" /\ ~last'.reached
              /\ UNCHANGED <<handles, dbs>>)]_vars

\* createTable was called with no handle while an accessor is open
C6_Witness ==
  /\ last.op = "table" /\ last.h = NoHandle /\ last.res = "RuntimeError"
  /\ \E h \in DOMAIN handles : handles[h].st = "Open"

C8_ReachedOnlyOpen ==
  (last.op \in RecordOps /\ last.reached) => last.was = "Open"

C8_ClosedStaysClosed ==
  \A h \in DOMAIN handles :
     handles[h].st = "Closed" => (h \in DOMAIN handles' /\ handles'[h].st = "Closed")

\* C8 as stated: a table-create, record-insert or record-update reaches the
\* accessor only while the accessor is Open, and a closed accessor never
\* becomes Open again.
C8_OnlyOpenPermits == []C8_ReachedOnlyOpen /\ [][C8_ClosedStaysClosed]_vars

C8_ReachedIffHandle ==
  /\ (last.op \in HandleOps) => (last.reached <=> last.h # NoHandle)
  /\ (last.op \in HandleOps /\ last.reached) => last.was \in {"Open", "Closed"}
  /\ (last.op = "close" /\ last.reached) => handles[last.h].st = "Closed"
  /\ (last.op = "open" /\ last.res = "ok") => handles[last.h].st = "Open"

\* C8 amended: an accessor is handed out Open, close() makes it Closed, and no
\* storage-layer call makes a Closed accessor Open again; a table-create,
\* record-insert or record-update reaches the accessor whenever the handle
\* passed is not None, whether the accessor is Open or already Closed (the
\* layer does not detect use after close), and never when it is None.
C8_Lifecycle == []C8_ReachedIffHandle /\ [][C8_ClosedStaysClosed]_vars

\* a record insert reached an accessor that had been closed
C8_Witness ==
  /\ last.op = "record" /\ last.reached /\ last.was = "Closed"
  /\ handles[last.h].st = "Closed"

(***************************************************************************)
(* Claims about unconfigured types (SpecConfig)                            *)
(***************************************************************************)
PathOps == {"create", "read", "delete", "list", "exists", "ctime", "filepath", "open"}

\* C7: every operation that resolves a path, called with a type that has no
\* configured root, fails with the configuration error, returns no value,
\* touches no file and no database.
C7_UnconfiguredFailsFast ==
  [][(last'.op \in PathOps /\ ~HasAttr(last'.t))
       => /\ last'.res = "ConfigurationError"
          /\ last'.doc = PyNone /\ last'.bool = FALSE
          /\ last'.paths = {} /\ last'.path = <<>> /\ last'.h = NoHandle
          /\ UNCHANGED <<fs, handles, dbs>>]_vars

\* exists() was called with an unconfigured type while a document is stored
\* and a database is open
C7_Witness ==
  /\ last.op = "exists" /\ last.t = "BOGUS" /\ last.res = "ConfigurationError"
  /\ DOMAIN fs # {}
  /\ handles # <<>>

(***************************************************************************)
(* Claims about the routes (SpecApi)                                       *)
(***************************************************************************)
HttpStatusOf(code) ==
  CASE code = "FileNotFound" -> 404
    [] code = "ValidationError" -> 400
    [] OTHER -> 500

\* C9: in every handler, a SessionException raised by the session service is
\* answered with 404 for FileNotFound, 400 for ValidationError and 500 for
\* any other error_code, never with a success status.
C9_SameErrorMapping ==
  resp.failed => (resp.status = HttpStatusOf(resp.code) /\ resp.status >= 400)

\* set_prompt_template answered a ValidationError while another request is
\* in its handler
C9_Witness ==
  /\ resp.handler = "set_prompt_template" /\ resp.failed
  /\ resp.code = "ValidationError" /\ resp.status = 400
  /\ \E r \in Requests : reqs[r].pc = "fetched"

====
